---- MODULE Spec2Model ----
(***************************************************************************)
(* mimi.py: polls a last.fm user's recent tracks, resolves each track to a *)
(* youtube URL (last.fm page first, youtube search second) and enqueues    *)
(* the URLs into VLC over its rc interface, sleeping between polls for a   *)
(* short or a long interval depending on how recently the user played.     *)
(*                                                                         *)
(* The model follows main()'s single thread of control step by step; the   *)
(* remote services (last.fm, youtube, VLC) and the wall clock are the      *)
(* environment.                                                            *)
(***************************************************************************)
EXTENDS Integers, Sequences, FiniteSets, TLC

(* ------------------------------ bounds --------------------------------- *)

\* wall-clock time at which main() starts (seconds)
StartTime == 600
\* granularity in which the wall clock advances (seconds)
TickS == 60
\* number of clock advances explored
MaxTicks == 2
\* number of tracks the user scrobbles during the run
MaxEvents == 3
\* args.limit, the positional CLI argument
limit == 2

MaxTime == StartTime + MaxTicks * TickS

(* --------------------------- configuration ----------------------------- *)

\* config['active_window_min'], config['awake_min'], config['asleep_min']
active_window_min == 1
awake_min == 1
asleep_min == 2

active_window_s == 60 * active_window_min
awake_s == 60 * awake_min
asleep_s == 60 * asleep_min

\* maxResults of the search request and the bound of the scan loop
max_results == 5

(* ------------------------------ values --------------------------------- *)

None == "None"

\* values of the data-youtube-url attribute found on last.fm track pages
EmbeddedLinks == {"https://youtu.be/x", "https://youtu.be/y"}

\* video identifiers the search API can return
VideoIds == {"a", "b"}

\* an item of the search response that is a channel or playlist: no videoId
NoVideoId == "channel"

\* exceptions that leave main()
Exceptions == {"ConnectError", "SourceUnavailable", "LastfmPageError",
               "SearchError", "IndexError", "EnqueueError"}

VARIABLES
    now,             \* wall clock, UNIX seconds
    scrobbles,       \* last.fm's record of the user's plays, in play order
    youtube_key,     \* linker.youtube_key: None or the API key
    pc,              \* where main()'s thread is
    last_ts,         \* main()'s last_ts
    cycle,           \* number of iterations of the while loop begun
    vlcrc,           \* the VLCrc of the with statement: [id, telnet]
    tracks,          \* main()'s tracks, as returned by get_tracks
    lt_last_ts,      \* load_tracks' local last_ts
    idx,             \* position of load_tracks' for loop in tracks
    links,           \* _get_from_lastfm's links of the track being resolved
    items,           \* the search response's items for that track
    searches,        \* search API requests issued for that track
    youtube_url,     \* load_tracks' youtube_url
    playlist,        \* the enqueue calls so far: [name, uts, cycle, conn, telnet]
    fetched,         \* the tracks get_tracks returned so far: [name, uts, cycle]
    sockets,         \* ids of the VLCrc objects whose telnet socket is open
    message,         \* the URL of the last command written to the telnet
    recently_active, \* main()'s recently_active
    sleep_s,         \* the argument of the time.sleep call in progress
    wake_time,       \* when that sleep ends
    error            \* the exception that ended the process, or None

vars == <<now, scrobbles, youtube_key, pc, last_ts, cycle, vlcrc, tracks,
          lt_last_ts, idx, links, items, searches, youtube_url, playlist,
          fetched, sockets, message, recently_active, sleep_s, wake_time,
          error>>

envVars == <<now, scrobbles>>
resolveVars == <<links, items, searches, youtube_url>>
sleepVars == <<recently_active, sleep_s, wake_time>>

(* ----------------------------- helpers --------------------------------- *)

Min(a, b) == IF a < b THEN a ELSE b

Reverse(s) == [i \in 1..Len(s) |-> s[Len(s) + 1 - i]]

\* decimal digits of n, as the service writes date.uts into its JSON
RECURSIVE ToDigits(_)
ToDigits(n) == IF n < 10 THEN <<n>> ELSE Append(ToDigits(n \div 10), n % 10)

\* int(s) for a string of decimal digits
RECURSIVE ParseInt(_)
ParseInt(s) ==
    IF Len(s) = 0 THEN 0
    ELSE 10 * ParseInt(SubSeq(s, 1, Len(s) - 1)) + s[Len(s)]

\* int(track['date']['uts'])
Uts(track) == ParseInt(track.uts)

\* the JSON track object of a scrobble
TrackJson(s) == [name |-> s.name, uts |-> ToDigits(s.uts)]

\* user.getrecenttracks: the plays not older than from_ts, newest first,
\* cut to the first n
RecentTracks(from_ts, n) ==
    LET newer == SelectSeq(scrobbles, LAMBDA s : s.uts >= from_ts)
        desc == Reverse(newer)
        cut == SubSeq(desc, 1, Min(n, Len(desc)))
    IN  [i \in 1..Len(cut) |-> TrackJson(cut[i])]

\* video_url.format(video_id=video_id)
WatchUrl(video_id) ==
    CASE video_id = "a" -> "https://www.youtube.com/watch?v=a"
      [] video_id = "b" -> "https://www.youtube.com/watch?v=b"

\* tree.xpath('(//@data-youtube-url)[last()]') over the attribute values of
\* the page in document order
XPathLast(page) == IF Len(page) = 0 THEN <<>> ELSE <<page[Len(page)]>>

\* lines 83-86
LinkOf(ls) == IF Len(ls) = 0 THEN None ELSE ls[1]

\* Scan taking the last item that has a videoId instead of the first
ScanLastFirst(its, i) ==
    LET with_id == {k \in 1..Len(its) : its[k] # NoVideoId}
    IN  IF with_id # {}
        THEN WatchUrl(its[CHOOSE k \in with_id : \A l \in with_id : l <= k])
        ELSE IF Len(its) >= max_results THEN None ELSE "IndexError"

\* the while/else loop of _get_from_youtube from position i: the URL, None
\* after max_results items without a videoId, or IndexError past the end
RECURSIVE Scan(_, _)
Scan(its, i) ==
    IF i >= max_results THEN None
    ELSE IF i >= Len(its) THEN "IndexError"
    ELSE IF its[i + 1] # NoVideoId THEN WatchUrl(its[i + 1])
    ELSE Scan(its, i + 1)

\* pages and search responses the services can answer with
Pages == UNION {[1..n -> EmbeddedLinks] : n \in 0..2}
\* (at most max_results items, no video listed twice)
SearchResponses ==
    {its \in UNION {[1..n -> VideoIds \cup {NoVideoId}] : n \in 0..max_results} :
        \A i, j \in 1..Len(its) : i # j /\ its[i] = its[j] => its[i] = NoVideoId}

NoVlcrc == [id |-> 0, telnet |-> None]

\* the open sockets once the VLCrc of the with statement has become v
SocketsAfter(v) == IF v.telnet = "open" THEN sockets \cup {v.id} ELSE sockets \ {v.id}

\* VLCrc.__exit__
Exit(v) == [v EXCEPT !.telnet = None]

(* ------------------------------- Init ---------------------------------- *)

Init ==
    /\ now = StartTime
    /\ scrobbles = <<>>
    /\ youtube_key \in {None, "key"}
    /\ pc = "loop"
    /\ last_ts = 0
    /\ cycle = 0
    /\ vlcrc = NoVlcrc
    /\ tracks = <<>>
    /\ lt_last_ts = 0
    /\ idx = 0
    /\ links = <<>>
    /\ items = <<>>
    /\ searches = 0
    /\ youtube_url = None
    /\ playlist = <<>>
    /\ fetched = <<>>
    /\ sockets = {}
    /\ message = None
    /\ recently_active = FALSE
    /\ sleep_s = 0
    /\ wake_time = 0
    /\ error = None

(* --------------------------- environment ------------------------------- *)

\* main() is blocked in a request to last.fm, or asleep, and cannot observe
\* the world; at every other step it reads neither the clock nor last.fm
Blocked == pc \in {"get_tracks", "load_tracks", "sleep"}

\* time passes
Tick ==
    /\ Blocked
    /\ now + TickS <= MaxTime
    /\ now' = now + TickS
    /\ UNCHANGED <<scrobbles, youtube_key, pc, last_ts, cycle, vlcrc, tracks,
                   lt_last_ts, idx, playlist, message, error, fetched, sockets>>
    /\ UNCHANGED resolveVars
    /\ UNCHANGED sleepVars

\* the user plays a track and last.fm records it
Scrobble ==
    /\ Blocked
    /\ Len(scrobbles) < MaxEvents
    /\ scrobbles' = Append(scrobbles, [name |-> Len(scrobbles) + 1, uts |-> now])
    /\ UNCHANGED <<now, youtube_key, pc, last_ts, cycle, vlcrc, tracks,
                   lt_last_ts, idx, playlist, message, error, fetched, sockets>>
    /\ UNCHANGED resolveVars
    /\ UNCHANGED sleepVars

(* ------------------------------ main() --------------------------------- *)

\* Raise for a VLCrc opened and closed by hand, without a with statement
RaiseWithoutExit(exc) ==
    /\ pc' = "crashed"
    /\ error' = exc
    /\ vlcrc' = vlcrc
    /\ sockets' = SocketsAfter(vlcrc')

\* an exception propagating out of main(): the with statement, if entered,
\* runs __exit__ on the way out
Raise(exc) ==
    /\ pc' = "crashed"
    /\ error' = exc
    /\ vlcrc' = IF pc = "loop" THEN vlcrc ELSE Exit(vlcrc)
    /\ sockets' = SocketsAfter(vlcrc')

\* with VLCrc(host, port) as vlcrc:
Connect ==
    /\ pc = "loop"
    /\ \/ /\ cycle' = cycle + 1
          /\ vlcrc' = [id |-> cycle + 1, telnet |-> "open"]
          /\ sockets' = SocketsAfter(vlcrc')
          /\ pc' = "get_tracks"
          /\ UNCHANGED error
       \/ /\ Raise("ConnectError")
          /\ UNCHANGED cycle
    /\ UNCHANGED <<youtube_key, last_ts, tracks, lt_last_ts, idx, playlist, message,
                   fetched>>
    /\ UNCHANGED envVars
    /\ UNCHANGED resolveVars
    /\ UNCHANGED sleepVars

\* the record of a batch returned in the current iteration
Fetched(ts) ==
    [i \in 1..Len(ts) |-> [name |-> ts[i].name, uts |-> Uts(ts[i]), cycle |-> cycle]]

\* GetTracks in a loop that takes the watermark from the clock when the
\* request fails
GetTracksClockWatermark ==
    /\ pc = "get_tracks"
    /\ \/ /\ tracks' = RecentTracks(last_ts, limit)
          /\ fetched' = fetched \o Fetched(tracks')
          /\ pc' = "load_tracks"
          /\ UNCHANGED <<vlcrc, sockets, error, last_ts>>
       \/ /\ Raise("SourceUnavailable")
          /\ last_ts' = now
          /\ UNCHANGED <<tracks, fetched>>
    /\ UNCHANGED <<youtube_key, cycle, lt_last_ts, idx, playlist, message>>
    /\ UNCHANGED envVars
    /\ UNCHANGED resolveVars
    /\ UNCHANGED sleepVars

\* tracks = scrobbler.get_tracks(last_ts, limit)
GetTracks ==
    /\ pc = "get_tracks"
    /\ \/ /\ tracks' = RecentTracks(last_ts, limit)
          /\ fetched' = fetched \o Fetched(tracks')
          /\ pc' = "load_tracks"
          /\ UNCHANGED <<vlcrc, sockets, error>>
       \/ /\ Raise("SourceUnavailable")
          /\ UNCHANGED <<tracks, fetched>>
    /\ UNCHANGED <<youtube_key, last_ts, cycle, lt_last_ts, idx, playlist, message>>
    /\ UNCHANGED envVars
    /\ UNCHANGED resolveVars
    /\ UNCHANGED sleepVars

\* NewLastTs reading the last track of the list instead of the first
NewLastTsOfOldest(ts) == Uts(ts[Len(ts)]) + 1

\* NewLastTs without the increment
NewLastTsSame(ts) == Uts(ts[1])

\* line 179: one more than the play time of the first track returned
NewLastTs(ts) == Uts(ts[1]) + 1

\* EmptyBatchTs starting over from the beginning of history
EmptyBatchTsReset(ts) == 0

\* line 176: what load_tracks returns for an empty batch
EmptyBatchTs(ts) == ts

\* Reversed leaving the list in the order received
NotReversed(ts) == ts

\* line 183: reversed(tracks)
Reversed(ts) == Reverse(ts)

\* the track of the current iteration of load_tracks' for loop
Track == Reversed(tracks)[idx]

\* load_tracks up to the first iteration of its loop (lines 175-183); with
\* no tracks it returns last_ts at once and main() assigns it (line 236)
LoadTracks ==
    /\ pc = "load_tracks"
    /\ IF Len(tracks) = 0
       THEN /\ last_ts' = EmptyBatchTs(last_ts)
            /\ pc' = "report"
            /\ UNCHANGED <<lt_last_ts, idx>>
       ELSE /\ lt_last_ts' = NewLastTs(tracks)
            /\ idx' = 1
            /\ pc' = "get_from_lastfm"
            /\ UNCHANGED last_ts
    /\ UNCHANGED <<youtube_key, cycle, vlcrc, tracks, playlist, message, error,
                   fetched, sockets>>
    /\ UNCHANGED envVars
    /\ UNCHANGED resolveVars
    /\ UNCHANGED sleepVars

\* url = self._get_from_lastfm(track)
GetFromLastfm ==
    /\ pc = "get_from_lastfm"
    /\ \/ \E page \in Pages :
            /\ links' = XPathLast(page)
            /\ youtube_url' = LinkOf(XPathLast(page))
            /\ items' = <<>>
            /\ searches' = 0
            /\ pc' = "get_from_youtube"
            /\ UNCHANGED <<vlcrc, sockets, error>>
       \/ /\ Raise("LastfmPageError")
          /\ UNCHANGED resolveVars
    /\ UNCHANGED <<youtube_key, last_ts, cycle, tracks, lt_last_ts, idx, playlist,
                   message, fetched>>
    /\ UNCHANGED envVars
    /\ UNCHANGED sleepVars

\* Fallback searching whatever last.fm gave
FallbackAlways(url) == TRUE

\* line 135: the search is tried only if last.fm gave nothing
Fallback(url) == url = None

\* SearchEnabled without the test for a key
SearchEnabledAlways(key) == TRUE

\* line 89: no search without an API key
SearchEnabled(key) == key # None

\* url = self._get_from_youtube(track) if url is None else url
GetFromYoutube ==
    /\ pc = "get_from_youtube"
    /\ IF ~Fallback(youtube_url)
       THEN /\ pc' = "enqueue"
            /\ UNCHANGED <<vlcrc, sockets, error>>
            /\ UNCHANGED resolveVars
       ELSE IF ~SearchEnabled(youtube_key)
       THEN /\ youtube_url' = None
            /\ pc' = "enqueue"
            /\ UNCHANGED <<vlcrc, sockets, error, links, items, searches>>
       ELSE /\ searches' = searches + 1
            /\ \/ /\ Raise("SearchError")
                  /\ UNCHANGED <<links, items, youtube_url>>
               \/ \E its \in SearchResponses :
                    /\ items' = its
                    /\ IF Scan(its, 0) = "IndexError"
                       THEN /\ Raise("IndexError")
                            /\ UNCHANGED youtube_url
                       ELSE /\ youtube_url' = Scan(its, 0)
                            /\ pc' = "enqueue"
                            /\ UNCHANGED <<vlcrc, sockets, error>>
                    /\ UNCHANGED links
    /\ UNCHANGED <<youtube_key, last_ts, cycle, tracks, lt_last_ts, idx, playlist,
                   message, fetched>>
    /\ UNCHANGED envVars
    /\ UNCHANGED sleepVars

\* ReturnedTs keeping the old watermark when the batch enqueued nothing
ReturnedTsIfEnqueued ==
    IF \E i \in 1..Len(playlist') : playlist'[i].cycle = cycle
    THEN lt_last_ts
    ELSE last_ts

\* line 195: the value load_tracks returns after its loop
ReturnedTs == lt_last_ts

\* the next iteration of the for loop, or return last_ts (line 195), which
\* main() assigns to its own last_ts (line 236); the locals of the
\* iteration that ended are gone
NextTrack ==
    /\ IF idx < Len(tracks)
       THEN /\ idx' = idx + 1
            /\ pc' = "get_from_lastfm"
            /\ UNCHANGED last_ts
       ELSE /\ idx' = 0
            /\ pc' = "report"
            /\ last_ts' = ReturnedTs
    /\ links' = <<>>
    /\ items' = <<>>
    /\ searches' = 0
    /\ youtube_url' = None

\* the record of an enqueue call: the track it is for, the iteration of the
\* while loop and the connection written to
Enqueued ==
    [name |-> Track.name, uts |-> Uts(Track), cycle |-> cycle, conn |-> vlcrc.id,
     telnet |-> vlcrc.telnet]

\* Continue leaving the loop at the first track without a URL
Break ==
    /\ idx' = 0
    /\ pc' = "report"
    /\ last_ts' = ReturnedTs
    /\ links' = <<>>
    /\ items' = <<>>
    /\ searches' = 0
    /\ youtube_url' = None

\* line 186: continue
Continue == NextTrack

\* lines 185-188: skip a track without a URL, enqueue the others
Enqueue ==
    /\ pc = "enqueue"
    /\ \/ /\ youtube_url = None
          /\ UNCHANGED <<playlist, message, vlcrc, sockets, error>>
          /\ Continue
       \/ /\ youtube_url # None
          /\ playlist' = Append(playlist, Enqueued)
          /\ message' = youtube_url
          /\ NextTrack
          /\ UNCHANGED <<vlcrc, sockets, error>>
       \/ /\ youtube_url # None
          /\ Raise("EnqueueError")
          /\ links' = <<>>
          /\ items' = <<>>
          /\ searches' = 0
          /\ UNCHANGED <<playlist, message, idx, last_ts, youtube_url>>
    /\ UNCHANGED <<youtube_key, cycle, tracks, lt_last_ts, fetched>>
    /\ UNCHANGED envVars
    /\ UNCHANGED sleepVars

\* line 243
RecentlyActive(t, ts) == t - ts < active_window_s

\* SleepSeconds with the two intervals exchanged
SleepSecondsSwapped(active) == IF active THEN asleep_s ELSE awake_s

\* lines 245-252: the argument of time.sleep
SleepSeconds(active) == IF active THEN awake_s ELSE asleep_s

\* lines 238-252, up to the call of time.sleep
Report ==
    /\ pc = "report"
    /\ recently_active' = RecentlyActive(now, last_ts)
    /\ sleep_s' = SleepSeconds(RecentlyActive(now, last_ts))
    /\ wake_time' = now + SleepSeconds(RecentlyActive(now, last_ts))
    /\ pc' = "sleep"
    /\ UNCHANGED <<youtube_key, last_ts, cycle, vlcrc, tracks, lt_last_ts, idx,
                   playlist, message, error, fetched, sockets>>
    /\ UNCHANGED envVars
    /\ UNCHANGED resolveVars

\* LeaveWith for a VLCrc that is never closed
LeaveWithLeak(v) == v

\* what leaving the with block does to the VLCrc
LeaveWith(v) == Exit(v)

\* time.sleep returns, the with block ends and the while loop starts over
Wake ==
    /\ pc = "sleep"
    /\ now >= wake_time
    /\ vlcrc' = LeaveWith(vlcrc)
    /\ sockets' = SocketsAfter(vlcrc')
    /\ pc' = "loop"
    /\ sleep_s' = 0
    /\ wake_time' = 0
    /\ UNCHANGED <<youtube_key, last_ts, cycle, tracks, lt_last_ts, idx,
                   playlist, message, error, recently_active, fetched>>
    /\ UNCHANGED envVars
    /\ UNCHANGED resolveVars

\* get_tracks when the service answers with the same tracks in an order of
\* its own choosing: the code takes whatever list the JSON holds
GetTracksAnyOrder ==
    /\ pc = "get_tracks"
    /\ LET batch == RecentTracks(last_ts, limit)
       IN  \E p \in Permutations(1..Len(batch)) :
             tracks' = [i \in 1..Len(batch) |-> batch[p[i]]]
    /\ fetched' = fetched \o Fetched(tracks')
    /\ pc' = "load_tracks"
    /\ UNCHANGED <<youtube_key, last_ts, cycle, vlcrc, lt_last_ts, idx,
                   playlist, message, error, sockets>>
    /\ UNCHANGED envVars
    /\ UNCHANGED resolveVars
    /\ UNCHANGED sleepVars

Next ==
    \/ Tick
    \/ Scrobble
    \/ Connect
    \/ GetTracks
    \/ LoadTracks
    \/ GetFromLastfm
    \/ GetFromYoutube
    \/ Enqueue
    \/ Report
    \/ Wake

Spec == Init /\ [][Next]_vars

NextAnyOrder ==
    \/ Next
    \/ GetTracksAnyOrder

\* the program against a service that does not keep to newest-first
SpecAnyOrder == Init /\ [][NextAnyOrder]_vars

TypeOK ==
    /\ now \in StartTime..MaxTime
    /\ pc \in {"loop", "get_tracks", "load_tracks", "get_from_lastfm",
               "get_from_youtube", "enqueue", "report", "sleep", "crashed"}
    /\ error \in Exceptions \cup {None}
    /\ youtube_url \in EmbeddedLinks \cup {WatchUrl(v) : v \in VideoIds} \cup {None}
    /\ Len(links) <= 1
    /\ Len(playlist) <= MaxEvents

(* ------------------------------ claims --------------------------------- *)

\* greatest play time of a non-empty batch
MaxPlayedAt(ts) ==
    CHOOSE m \in {Uts(ts[i]) : i \in 1..Len(ts)} :
        \A i \in 1..Len(ts) : Uts(ts[i]) <= m

\* main() is past line 236 of the current cycle
AfterLoadTracks == pc \in {"report", "sleep"}

\* C1: once load_tracks has returned for a non-empty batch, the watermark
\* is one more than the greatest playedAt of the batch
C1_WatermarkIsNewestPlusOne ==
    AfterLoadTracks /\ Len(tracks) > 0 => last_ts = MaxPlayedAt(tracks) + 1

C1_Witness ==
    /\ pc = "sleep"
    /\ Len(tracks) = 2
    /\ Uts(tracks[1]) > Uts(tracks[2])
    /\ last_ts = Uts(tracks[1]) + 1

\* the playlist entries enqueued in the current cycle, as positions
ThisCycle == {i \in 1..Len(playlist) : playlist[i].cycle = cycle}

\* position in the fetched batch of the track called name
PosInBatch(name) == CHOOSE k \in 1..Len(tracks) : tracks[k].name = name

NewestFirst(ts) == \A i, j \in 1..Len(ts) : i < j => Uts(ts[i]) >= Uts(ts[j])

\* C2, as claimed: within one batch the enqueues are in chronological order
\* whatever the order in which the source returned the events
C2_ChronologicalRegardless ==
    \A i, j \in ThisCycle : i < j => playlist[i].uts <= playlist[j].uts

\* C2, amended: within one batch the enqueues are in the reverse of the
\* order returned, hence oldest first whenever the batch came newest first
C2_EnqueuesReverseBatch ==
    \A i, j \in ThisCycle :
        i < j =>
            /\ PosInBatch(playlist[i].name) > PosInBatch(playlist[j].name)
            /\ NewestFirst(tracks) => playlist[i].uts <= playlist[j].uts

C2_Witness ==
    /\ Len(tracks) = 2
    /\ NewestFirst(tracks)
    /\ \E i, j \in ThisCycle :
        /\ i < j
        /\ playlist[i].uts < playlist[j].uts
        /\ playlist[i].name = tracks[2].name
        /\ playlist[j].name = tracks[1].name

\* C3: the watermark starts at 0 and no step lowers it
C3_WatermarkMonotone == (last_ts = 0) /\ [][last_ts' >= last_ts]_vars

\* two successive cycles each moved the watermark
C3_Witness ==
    /\ pc = "sleep"
    /\ cycle = 2
    /\ \E i, j \in 1..Len(playlist) :
        /\ playlist[i].cycle = 1
        /\ playlist[j].cycle = 2
        /\ playlist[i].uts < playlist[j].uts
        /\ last_ts = playlist[j].uts + 1

\* C4: main() is never asleep with the cycle's connection still open
C4_ReleasedBeforeSleep == ~(pc = "sleep" /\ vlcrc.telnet = "open")

\* C5: when a cycle is over, by reaching the end of the with block or by an
\* exception, its connection is closed
C5_ReleasedOnEveryExit == pc \in {"loop", "crashed"} => vlcrc.telnet # "open"

C5_Witness ==
    /\ pc = "crashed"
    /\ error = "EnqueueError"
    /\ vlcrc.id = cycle
    /\ vlcrc.telnet = None

\* C6: a failure of the last.fm page request or of the search request ends
\* neither the batch nor the process
C6_ResolutionFailureNotFatal == error \notin {"LastfmPageError", "SearchError"}

\* the search answered and no item of the answer has a videoId
SearchExhausted ==
    /\ searches > 0
    /\ error # "SearchError"
    /\ pc \in {"enqueue", "crashed"}
    /\ \A i \in 1..Len(items) : items[i] = NoVideoId

\* C7: a search whose candidates (five or fewer) all lack a video
\* identifier gives an absent result and raises nothing
C7_ExhaustedSearchIsAbsent ==
    SearchExhausted => error = None /\ youtube_url = None

\* C8: a link found on the last.fm page is the result and no search is made
C8_Tier1ShortCircuits ==
    Len(links) > 0 => searches = 0 /\ youtube_url = links[1]

C8_Witness ==
    /\ pc = "enqueue"
    /\ youtube_key # None
    /\ Len(links) = 1
    /\ youtube_url = links[1]
    /\ searches = 0

\* C9: without a search key no search request is made, and a track whose
\* page has no link resolves to None
C9_NoKeyNoSearch ==
    youtube_key = None =>
        /\ searches = 0
        /\ pc = "enqueue" /\ Len(links) = 0 => youtube_url = None

C9_Witness ==
    /\ pc = "enqueue"
    /\ youtube_key = None
    /\ Len(links) = 0
    /\ youtube_url = None
    /\ searches = 0

\* the clock reading of line 240 of the cycle that is asleep
ReportedAt == wake_time - sleep_s

\* C10: the sleep is the active interval exactly when the clock read in this
\* cycle is less than the activity window past the watermark this cycle left
C10_SleepFollowsActivity ==
    pc = "sleep" =>
        /\ recently_active <=> ReportedAt - last_ts < active_window_s
        /\ sleep_s = IF recently_active THEN awake_s ELSE asleep_s
        /\ Len(tracks) > 0 => last_ts = Uts(tracks[1]) + 1

\* an active cycle right after an asleep one: the first play ever happened
\* at the clock reading of the second cycle, so the first cycle fetched
\* nothing and slept the asleep interval
C10_Witness ==
    /\ pc = "sleep"
    /\ cycle = 2
    /\ recently_active
    /\ sleep_s = awake_s
    /\ Len(tracks) > 0
    /\ scrobbles[1].uts = ReportedAt

\* C11: an empty batch leaves the watermark as it was, resolves and enqueues
\* nothing, and the cycle goes on to the sleep
C11_EmptyBatchOnlySleeps ==
    [][/\ pc = "load_tracks" /\ Len(tracks) = 0 /\ pc' # pc =>
            /\ pc' = "report"
            /\ last_ts' = last_ts
            /\ playlist' = playlist
            /\ message' = message
            /\ searches' = searches
       /\ pc = "report" /\ Len(tracks) = 0 =>
            /\ pc' = "sleep"
            /\ last_ts' = last_ts]_vars

\* an empty batch after a batch that moved the watermark
C11_Witness ==
    /\ pc = "sleep"
    /\ cycle = 2
    /\ Len(tracks) = 0
    /\ last_ts > 0

\* C12: whatever a later cycle enqueues was played strictly after
\* everything an earlier cycle enqueued
C12_LaterBatchIsNewer ==
    \A i, j \in 1..Len(playlist) :
        playlist[i].cycle < playlist[j].cycle => playlist[i].uts < playlist[j].uts

C12_Witness ==
    /\ Len(playlist) = 3
    /\ playlist[1].cycle = 1
    /\ playlist[2].cycle = 1
    /\ playlist[3].cycle = 2
    /\ playlist[3].uts > playlist[2].uts

\* C13: the step in which get_tracks fails leaves the watermark as it was
C13_FailedFetchKeepsWatermark ==
    [][error # "SourceUnavailable" /\ error' = "SourceUnavailable" =>
            last_ts' = last_ts /\ fetched' = fetched]_vars

\* a fetch failed in a cycle after one that moved the watermark
C13_Witness ==
    /\ pc = "crashed"
    /\ error = "SourceUnavailable"
    /\ cycle = 2
    /\ last_ts > 0

\* C14: a failed fetch does not end the loop
C14_FetchFailureNotTerminal == ~(pc = "crashed" /\ error = "SourceUnavailable")

\* C15: a track that resolves to None is passed over and the loop goes on
\* with the next track; a track that resolves to a URL is enqueued
C15_AbsentIsSkipped ==
    [][pc = "enqueue" =>
        /\ youtube_url = None =>
            /\ playlist' = playlist
            /\ error' = None
            /\ IF idx < Len(tracks)
               THEN pc' = "get_from_lastfm" /\ idx' = idx + 1
               ELSE pc' = "report"
        /\ youtube_url # None /\ error' = None =>
            /\ Len(playlist') = Len(playlist) + 1
            /\ SubSeq(playlist', 1, Len(playlist)) = playlist
            /\ playlist'[Len(playlist')].name = Track.name
            /\ message' = youtube_url]_vars

\* of a batch of two, the older track resolved to None and the newer one
\* was enqueued all the same
C15_Witness ==
    /\ pc = "sleep"
    /\ Len(tracks) = 2
    /\ Cardinality(ThisCycle) = 1
    /\ \A i \in ThisCycle : playlist[i].name = tracks[1].name

\* position of the first item that has a videoId
FirstVideo(its) ==
    CHOOSE k \in 1..Len(its) :
        its[k] # NoVideoId /\ \A l \in 1..(k - 1) : its[l] = NoVideoId

\* C16: the search result is the watch URL of the first item, in the order
\* returned, that has a videoId
C16_FirstCandidateWins ==
    /\ pc = "enqueue"
    /\ searches > 0
    /\ \E k \in 1..Len(items) : items[k] # NoVideoId
    => youtube_url = WatchUrl(items[FirstVideo(items)])

C16_Witness ==
    /\ pc = "enqueue"
    /\ Len(links) = 0
    /\ items = <<NoVideoId, "b", "a">>
    /\ youtube_url = "https://www.youtube.com/watch?v=b"

\* C17: no track is returned by two fetches, and none is enqueued twice
C17_NeverFetchedAgain ==
    /\ \A i, j \in 1..Len(fetched) : i # j => fetched[i].name # fetched[j].name
    /\ \A i, j \in 1..Len(playlist) : i # j => playlist[i].name # playlist[j].name

\* the second cycle fetched the one play made since the first, and not
\* again the track the first cycle ended on
C17_Witness ==
    /\ pc = "sleep"
    /\ Len(fetched) = 2
    /\ fetched[1].cycle = 1
    /\ fetched[2].cycle = 2
    /\ Len(playlist) = 2
    /\ last_ts = fetched[2].uts + 1

\* C18: never two telnet sockets open at once, and every enqueue was written
\* to the open socket of the VLCrc made in the same iteration
C18_OneConnectionPerCycle ==
    /\ Cardinality(sockets) <= 1
    /\ sockets = IF vlcrc.telnet = "open" THEN {vlcrc.id} ELSE {}
    /\ \A i \in 1..Len(playlist) :
        playlist[i].telnet = "open" /\ playlist[i].conn = playlist[i].cycle

\* enqueues of two cycles, each on its own connection, the second still open
C18_Witness ==
    /\ Len(playlist) = 2
    /\ playlist[1].conn = 1
    /\ playlist[2].conn = 2
    /\ sockets = {2}

\* main() holds the batch of the current iteration
HoldsBatch ==
    pc \in {"load_tracks", "get_from_lastfm", "get_from_youtube", "enqueue",
            "report", "sleep"}

\* C19: a batch some of whose tracks resolved to None moves the watermark to
\* its newest play time plus one all the same, and no track of an earlier
\* batch, enqueued or not, is in the current batch
C19_WatermarkIgnoresResolution ==
    /\ AfterLoadTracks /\ Len(tracks) > 0 /\ Cardinality(ThisCycle) < Len(tracks)
        => last_ts = MaxPlayedAt(tracks) + 1
    /\ HoldsBatch =>
        \A i \in 1..Len(fetched) : \A k \in 1..Len(tracks) :
            fetched[i].cycle < cycle => fetched[i].name # tracks[k].name

\* two batches, nothing of either enqueued, the watermark after the second
C19_Witness ==
    /\ pc = "sleep"
    /\ cycle = 2
    /\ playlist = <<>>
    /\ Len(tracks) > 0
    /\ \E i \in 1..Len(fetched) : fetched[i].cycle = 1
    /\ last_ts = Uts(tracks[1]) + 1

\* the plays below the watermark that no fetch has returned
Dropped ==
    {scrobbles[i].name : i \in {k \in 1..Len(scrobbles) :
        /\ scrobbles[k].uts < last_ts
        /\ \A f \in 1..Len(fetched) : fetched[f].name # scrobbles[k].name}}

\* C20: a batch is at most limit tracks, the newest; a play not in it and
\* not newer than it is below the watermark the batch leaves, and a play
\* below the watermark that was not fetched is never fetched
C20_OverflowIsDropped ==
    /\ [](Len(tracks) <= limit)
    /\ [](AfterLoadTracks /\ Len(tracks) > 0 =>
            \A k \in 1..Len(scrobbles) :
                scrobbles[k].uts <= MaxPlayedAt(tracks) => scrobbles[k].uts < last_ts)
    /\ [][Dropped \subseteq Dropped']_vars

\* three plays before the first fetch: the two newest were fetched, the
\* oldest was not and a second cycle did not fetch it either
C20_Witness ==
    /\ pc = "sleep"
    /\ cycle = 2
    /\ Len(scrobbles) = 3
    /\ Len(fetched) = 2
    /\ fetched[1].cycle = 1
    /\ fetched[2].cycle = 1
    /\ scrobbles[1].name \in Dropped

====
